---- MODULE Spec2Model ----
(***************************************************************************)
(* Catalog and schema layer of cnosdb (common/models/src/schema.rs) and    *)
(* the environment override of the WAL configuration (config/src/lib.rs).  *)
(*                                                                         *)
(* A text is a sequence of characters; a character is a one-element token  *)
(* ("d", "'", "U+00E9" for e-acute, "U+017F" for the long s) together with *)
(* the number of bytes of its UTF-8 encoding, since the code indexes texts *)
(* by byte.                                                                *)
(***************************************************************************)
EXTENDS Integers, Sequences, FiniteSets, TLC

VARIABLES
    text,         \* the argument of Duration::new / Precision::new
    durResult,    \* what Duration::new(text) did
    precResult,   \* what Precision::new(text) did
    conv,         \* ColumnType -> ArrowDataType -> ColumnType conversion in progress
    wire,         \* ColumnType -> u8 -> ColumnType encoding in progress
    fields,       \* the BTreeMap<String, TableFiled> the caller is building
    schema,       \* the TableSchema built from it
    arrowSchema,  \* the last to_arrow_schema() of schema
    fieldSlots,   \* the last fields_id() of schema
    fieldNum,     \* the last field_fields_num() of schema
    dbCall,       \* the last DatabaseSchema::new call: its argument and value
    wal,          \* the WalConfig
    env,          \* the process environment, CNOSDB_WAL_* variables
    configPc      \* "loaded": the file was read; "overridden": override_by_env ran

vars == <<text, durResult, precResult, conv, wire, fields, schema,
          arrowSchema, fieldSlots, fieldNum, dbCall, wal, env, configPc>>

textVars == <<text, durResult, precResult>>
typeVars == <<conv, wire>>
catalogVars == <<fields, schema, arrowSchema, fieldSlots, fieldNum>>
configVars == <<dbCall, wal, env, configPc>>

(***************************************************************************)
(* Bounds of the model.                                                    *)
(***************************************************************************)
MaxDurationLen == 5
MaxPrecisionLen == 4
MaxExtraIds == 1
MaxWireTag == 7

(***************************************************************************)
(* Values shared by the operations.                                        *)
(***************************************************************************)
NotCalled == [tag |-> "NotCalled"]
None == [tag |-> "None"]
Some(v) == [tag |-> "Some", val |-> v]
Panic == [tag |-> "Panic"]
Ok(v) == [tag |-> "Ok", val |-> v]
Err(e) == [tag |-> "Err", err |-> e]

(***************************************************************************)
(* Texts (Rust str): characters, their UTF-8 width, byte slicing.          *)
(***************************************************************************)
MultiByteChars == {"U+00E9", "U+017F", "U+00C9"}

Utf8Len(c) == IF c \in MultiByteChars THEN 2 ELSE 1

RECURSIVE ByteLen(_)
ByteLen(s) == IF s = <<>> THEN 0 ELSE Utf8Len(Head(s)) + ByteLen(Tail(s))

\* Byte offset at which the k-th character (1-based) of s starts;
\* CharStart(s, Len(s) + 1) is the byte length.
CharStart(s, k) == ByteLen(SubSeq(s, 1, k - 1))

IsCharBoundary(s, i) == \E k \in 1..(Len(s) + 1) : CharStart(s, k) = i

\* &s[a..b] with byte indices: panics unless a <= b <= len and both lie on
\* character boundaries; otherwise the characters starting in [a, b).
StrSlice(s, a, b) ==
    IF a > b \/ b > ByteLen(s) \/ ~IsCharBoundary(s, a) \/ ~IsCharBoundary(s, b)
    THEN Panic
    ELSE LET first == CHOOSE k \in 1..(Len(s) + 1) : CharStart(s, k) = a
             last == CHOOSE k \in 1..(Len(s) + 1) : CharStart(s, k) = b
         IN  Ok(SubSeq(s, first, last - 1))

\* char::to_uppercase for the characters of the model.
UpperChar(c) ==
    CASE c = "d" -> "D"
      [] c = "h" -> "H"
      [] c = "m" -> "M"
      [] c = "n" -> "N"
      [] c = "s" -> "S"
      [] c = "u" -> "U"
      [] c = "x" -> "X"
      [] c = "U+00E9" -> "U+00C9"
      [] c = "U+017F" -> "S"
      [] OTHER -> c

to_uppercase(s) == [i \in 1..Len(s) |-> UpperChar(s[i])]

Digits == {"0", "1", "2", "3", "4", "5", "6", "7", "8", "9"}

DigitValue(c) ==
    CASE c = "0" -> 0 [] c = "1" -> 1 [] c = "2" -> 2 [] c = "3" -> 3
      [] c = "4" -> 4 [] c = "5" -> 5 [] c = "6" -> 6 [] c = "7" -> 7
      [] c = "8" -> 8 [] c = "9" -> 9

RECURSIVE DecimalValue(_)
DecimalValue(s) ==
    IF s = <<>> THEN 0
    ELSE DecimalValue(SubSeq(s, 1, Len(s) - 1)) * 10 + DigitValue(s[Len(s)])

\* str::parse::<u64>: empty text and a lone sign are errors, one leading "+"
\* is accepted, every other character must be a decimal digit.  (A value
\* above 2^64 - 1 is an error too; it needs 20 digits, beyond MaxDurationLen.)
ParseU64(s) ==
    IF s = <<>> THEN Err("Empty")
    ELSE IF s[1] \in {"+", "-"} /\ Len(s) = 1 THEN Err("InvalidDigit")
    ELSE LET digits == IF s[1] = "+" THEN Tail(s) ELSE s
         IN  IF \A i \in 1..Len(digits) : digits[i] \in Digits
             THEN Ok(DecimalValue(digits))
             ELSE Err("InvalidDigit")

(***************************************************************************)
(* Duration and Precision.                                                 *)
(***************************************************************************)
DurationUnit == {"Minutes", "Hour", "Day"}

Duration(n, u) == [time_num |-> n, unit |-> u]

\* Duration::new: len is the byte length; both slices are taken before the
\* magnitude is parsed, so a slice off a character boundary panics first.
Duration_new(t) ==
    LET len == ByteLen(t)
    IN  IF len < 4 THEN None
        ELSE LET time == StrSlice(t, 1, len - 2)
                 unit == StrSlice(t, len - 2, len - 1)
             IN  IF time.tag = "Panic" \/ unit.tag = "Panic" THEN Panic
                 ELSE LET parsed == ParseU64(time.val)
                          up == to_uppercase(unit.val)
                      IN  IF parsed.tag = "Err" THEN None
                          ELSE CASE up = <<"D">> -> Some(Duration(parsed.val, "Day"))
                                 [] up = <<"H">> -> Some(Duration(parsed.val, "Hour"))
                                 [] up = <<"M">> -> Some(Duration(parsed.val, "Minutes"))
                                 [] OTHER -> None

Precision_new_ExactCase(t) ==
    CASE t = <<"'", "M", "S", "'">> -> Some("MS")
      [] t = <<"'", "U", "S", "'">> -> Some("US")
      [] t = <<"'", "N", "S", "'">> -> Some("NS")
      [] OTHER -> None

Precision_new(t) ==
    LET up == to_uppercase(t)
    IN  CASE up = <<"'", "M", "S", "'">> -> Some("MS")
          [] up = <<"'", "U", "S", "'">> -> Some("US")
          [] up = <<"'", "N", "S", "'">> -> Some("NS")
          [] OTHER -> None

\* Characters the texts handed to Duration::new are made of.
DurationChars == {"'", "0", "1", "+", "d", "H", "m", "x", "U+00E9"}

\* Characters the texts handed to Precision::new are made of.
PrecisionChars == {"'", "m", "S", "s", "n", "N", "u", "x", "U+017F"}

TextsOver(chars, maxLen) == UNION {[1..n -> chars] : n \in 0..maxLen}

DurationTexts == TextsOver(DurationChars, MaxDurationLen)

PrecisionTexts == TextsOver(PrecisionChars, MaxPrecisionLen)

(***************************************************************************)
(* ColumnType, ValueType and the native columnar type (ArrowDataType).     *)
(***************************************************************************)
ValueType == {"Unknown", "Float", "Integer", "Unsigned", "Boolean", "String"}

Tag == [tag |-> "Tag"]
Time == [tag |-> "Time"]
Field(v) == [tag |-> "Field", vt |-> v]

ColumnType == {Tag, Time} \cup {Field(v) : v \in ValueType}

Arrow(t) == [tag |-> t]
Timestamp(u) == [tag |-> "Timestamp", unit |-> u, tz |-> "None"]

\* The native types of the columnar library the query engine may present.
ArrowDataType ==
    {Arrow(t) : t \in {"Null", "Boolean", "Int8", "Int32", "Int64", "UInt32",
                       "UInt64", "Float32", "Float64", "Utf8", "LargeUtf8",
                       "Binary", "Date64"}}
    \cup {Timestamp(u) : u \in {"Second", "Millisecond", "Microsecond", "Nanosecond"}}

\* impl From<ColumnType> for ArrowDataType
ArrowFrom(t) ==
    CASE t = Tag -> Arrow("Utf8")
      [] t = Time -> Timestamp("Nanosecond")
      [] t = Field("Float") -> Arrow("Float64")
      [] t = Field("Integer") -> Arrow("Int64")
      [] t = Field("Unsigned") -> Arrow("UInt64")
      [] t = Field("String") -> Arrow("Utf8")
      [] t = Field("Boolean") -> Arrow("Boolean")
      [] OTHER -> Arrow("Null")

ColumnTypeTryFrom_TimestampIsTime(value) ==
    CASE value = Arrow("Float64") -> Ok(Field("Float"))
      [] value = Arrow("Int64") -> Ok(Field("Integer"))
      [] value = Arrow("UInt64") -> Ok(Field("Unsigned"))
      [] value = Arrow("Utf8") -> Ok(Field("String"))
      [] value = Arrow("Boolean") -> Ok(Field("Boolean"))
      [] value = Timestamp("Nanosecond") -> Ok(Time)
      [] OTHER -> Err("Error field type not supported")

\* impl TryFrom<ArrowDataType> for ColumnType
ColumnTypeTryFrom(value) ==
    CASE value = Arrow("Float64") -> Ok(Field("Float"))
      [] value = Arrow("Int64") -> Ok(Field("Integer"))
      [] value = Arrow("UInt64") -> Ok(Field("Unsigned"))
      [] value = Arrow("Utf8") -> Ok(Field("String"))
      [] value = Arrow("Boolean") -> Ok(Field("Boolean"))
      [] OTHER -> Err("Error field type not supported")

field_type(t) ==
    CASE t = Field("Float") -> 0
      [] t = Field("Integer") -> 1
      [] t = Field("Unsigned") -> 2
      [] t = Field("Boolean") -> 3
      [] t = Field("String") -> 4
      [] OTHER -> 0

from_i32(n) ==
    CASE n = 0 -> Field("Float")
      [] n = 1 -> Field("Integer")
      [] n = 2 -> Field("Unsigned")
      [] n = 3 -> Field("Boolean")
      [] n = 4 -> Field("String")
      [] n = 5 -> Time
      [] OTHER -> Field("Unknown")

is_tag(t) == t = Tag

(***************************************************************************)
(* TableFiled and TableSchema.  A BTreeMap<String, V> is the sequence of   *)
(* its entries in ascending key order, keys compared byte by byte.         *)
(***************************************************************************)
TIME_FIELD_NAME == <<"t", "i", "m", "e">>
FIELD_ID == <<"_", "f", "i", "e", "l", "d", "_", "i", "d">>
TAG == <<"_", "t", "a", "g">>

\* The byte of an ASCII character of the field names.
CharCode(c) ==
    CASE c = "_" -> 95  [] c = "a" -> 97  [] c = "d" -> 100 [] c = "e" -> 101
      [] c = "f" -> 102 [] c = "g" -> 103 [] c = "i" -> 105 [] c = "l" -> 108
      [] c = "m" -> 109 [] c = "n" -> 110 [] c = "o" -> 111 [] c = "p" -> 112
      [] c = "r" -> 114 [] c = "t" -> 116

\* Ord for String: lexicographic on bytes, a proper prefix first.
RECURSIVE StrLess(_, _)
StrLess(a, b) ==
    IF b = <<>> THEN FALSE
    ELSE IF a = <<>> THEN TRUE
    ELSE IF CharCode(Head(a)) # CharCode(Head(b))
         THEN CharCode(Head(a)) < CharCode(Head(b))
         ELSE StrLess(Tail(a), Tail(b))

BTreeMapNew == <<>>

\* BTreeMap::insert: the value of an existing key is replaced, a new key
\* takes its place in key order.
BTreeInsert(m, k, v) ==
    IF \E i \in 1..Len(m) : m[i].key = k
    THEN [i \in 1..Len(m) |-> IF m[i].key = k THEN [key |-> k, val |-> v] ELSE m[i]]
    ELSE LET pos == Cardinality({i \in 1..Len(m) : StrLess(m[i].key, k)})
         IN  SubSeq(m, 1, pos) \o <<[key |-> k, val |-> v]>> \o SubSeq(m, pos + 1, Len(m))

TableFiled_new(id, name, column_type, codec) ==
    [id |-> id, name |-> name, column_type |-> column_type, codec |-> codec]

new_with_default(name, column_type) ==
    [id |-> 0, name |-> name, column_type |-> column_type, codec |-> 0]

time_field(codec) ==
    [id |-> 0, name |-> TIME_FIELD_NAME, column_type |-> Time, codec |-> codec]

TableSchema_default ==
    [db |-> "public", name |-> "", schema_id |-> 0, fields |-> BTreeMapNew]

TableSchema_new(db, name, fs) ==
    [db |-> db, name |-> name, schema_id |-> 0, fields |-> fs]

DigitChar(d) ==
    CASE d = 0 -> "0" [] d = 1 -> "1" [] d = 2 -> "2" [] d = 3 -> "3"
      [] d = 4 -> "4" [] d = 5 -> "5" [] d = 6 -> "6" [] d = 7 -> "7"
      [] d = 8 -> "8" [] d = 9 -> "9"

\* u64::to_string
RECURSIVE U64ToString(_)
U64ToString(n) ==
    IF n < 10 THEN <<DigitChar(n)>>
    ELSE U64ToString(n \div 10) \o <<DigitChar(n % 10)>>

\* bool::to_string
BoolToString(b) == IF b THEN <<"t", "r", "u", "e">> ELSE <<"f", "a", "l", "s", "e">>

\* Field::new(name, data_type, nullable) followed by set_metadata(Some(map))
ArrowField(name, data_type, nullable, metadata) ==
    [name |-> name, data_type |-> data_type, nullable |-> nullable,
     metadata |-> metadata]

to_arrow_schema_TagOfField(self) ==
    [i \in 1..Len(self.fields) |->
        LET name == self.fields[i].key
            f == self.fields[i].val
        IN  ArrowField(name, ArrowFrom(f.column_type), TRUE,
                [k \in {FIELD_ID, TAG} |->
                    IF k = FIELD_ID THEN U64ToString(f.id)
                    ELSE BoolToString(~is_tag(f.column_type))])]

to_arrow_schema(self) ==
    [i \in 1..Len(self.fields) |->
        LET name == self.fields[i].key
            f == self.fields[i].val
        IN  ArrowField(name, ArrowFrom(f.column_type), TRUE,
                [k \in {FIELD_ID, TAG} |->
                    IF k = FIELD_ID THEN U64ToString(f.id)
                    ELSE BoolToString(is_tag(f.column_type))])]

field_fields_num(self) ==
    Cardinality({i \in 1..Len(self.fields) :
        /\ self.fields[i].val.column_type # Tag
        /\ self.fields[i].val.column_type # Time})

\* HashMap::insert for each (i, id) of ans.iter().enumerate(), from index k on;
\* a later index replaces the value an equal id got before.
RECURSIVE InsertEnumerated(_, _, _)
InsertEnumerated(map, ans, k) ==
    IF k > Len(ans) THEN map
    ELSE InsertEnumerated(
            [id \in (DOMAIN map) \cup {ans[k]} |->
                IF id = ans[k] THEN k - 1 ELSE map[id]],
            ans, k + 1)

fields_id(self) ==
    LET pushed == SelectSeq(self.fields,
                    LAMBDA e : e.val.column_type # Tag /\ e.val.column_type # Time)
        ids == [i \in 1..Len(pushed) |-> pushed[i].val.id]
        ans == SortSeq(ids, LAMBDA a, b : a < b)
    IN  InsertEnumerated(<<>>, ans, 1)

(***************************************************************************)
(* DatabaseOptions and DatabaseSchema.                                     *)
(***************************************************************************)
DatabaseOptions_default_ZeroShards ==
    [ttl |-> Duration(365, "Day"), shard_num |-> 0,
     vnode_duration |-> Duration(365, "Day"), replica |-> 1, precision |-> "NS"]

DatabaseOptions_default ==
    [ttl |-> Duration(365, "Day"), shard_num |-> 1,
     vnode_duration |-> Duration(365, "Day"), replica |-> 1, precision |-> "NS"]

DatabaseSchema_new(name) == [name |-> name, config |-> DatabaseOptions_default]

(***************************************************************************)
(* WalConfig and the environment.                                          *)
(***************************************************************************)
EnvVars == {"CNOSDB_WAL_ENABLED", "CNOSDB_WAL_PATH", "CNOSDB_WAL_SYNC"}

\* std::env::var(name): Ok(value) when the variable is set, Err otherwise.
env_var(e, name) == IF e[name].tag = "Some" THEN Ok(e[name].val) ELSE Err("NotPresent")

\* WalConfig::override_by_env
override_by_env(self, e) ==
    LET enabled == env_var(e, "CNOSDB_WAL_ENABLED")
        path == env_var(e, "CNOSDB_WAL_PATH")
        sync == env_var(e, "CNOSDB_WAL_SYNC")
    IN  [enabled |-> IF enabled.tag = "Ok" THEN enabled.val = "true" ELSE self.enabled,
         path |-> IF path.tag = "Ok" THEN path.val ELSE self.path,
         sync |-> IF sync.tag = "Ok" THEN sync.val = sync.val ELSE self.sync]

(***************************************************************************)
(* Inputs.                                                                 *)
(***************************************************************************)
\* Identifiers of one and of two decimal digits; 0 is what new_with_default
\* and time_field assign.
FieldIds == {0, 3} \cup {10 + k : k \in 1..MaxExtraIds}

FieldNames == {<<"r", "e", "g", "i", "o", "n">>, <<"t", "e", "m", "p">>, TIME_FIELD_NAME}

DbNames == {"public", "metrics", ""}

WireTags == (-1)..MaxWireTag

BoolTexts == {"true", "false", "yes"}

WalPaths == {"/var/wal"}

Returned(v) == [tag |-> "Returned", val |-> v]

(***************************************************************************)
(* Duration::new and Precision::new applied to a text.                     *)
(***************************************************************************)
IdleText == text = <<>> /\ durResult = NotCalled /\ precResult = NotCalled

IdleTypes ==
    /\ conv = [src |-> NotCalled, native |-> NotCalled, back |-> NotCalled]
    /\ wire = [src |-> NotCalled, code |-> NotCalled, back |-> NotCalled]

IdleCatalog ==
    /\ fields = BTreeMapNew
    /\ schema = NotCalled
    /\ arrowSchema = NotCalled
    /\ fieldSlots = NotCalled
    /\ fieldNum = NotCalled

IdleConfig ==
    /\ dbCall = NotCalled
    /\ wal = [enabled |-> TRUE, path |-> "data/wal", sync |-> TRUE]
    /\ env = [v \in EnvVars |-> None]
    /\ configPc = "loaded"

CallDurationNew ==
    /\ durResult = NotCalled
    /\ durResult' = Duration_new(text)
    /\ UNCHANGED <<text, precResult, typeVars, catalogVars, configVars>>

InitDuration ==
    /\ text \in DurationTexts
    /\ durResult = NotCalled
    /\ precResult = NotCalled
    /\ IdleTypes /\ IdleCatalog /\ IdleConfig

NextDuration == CallDurationNew

SpecDuration == InitDuration /\ [][NextDuration]_vars

CallPrecisionNew ==
    /\ precResult = NotCalled
    /\ precResult' = Precision_new(text)
    /\ UNCHANGED <<text, durResult, typeVars, catalogVars, configVars>>

InitPrecision ==
    /\ text \in PrecisionTexts
    /\ durResult = NotCalled
    /\ precResult = NotCalled
    /\ IdleTypes /\ IdleCatalog /\ IdleConfig

NextPrecision == CallPrecisionNew

SpecPrecision == InitPrecision /\ [][NextPrecision]_vars

(***************************************************************************)
(* Conversions of ColumnType.                                              *)
(***************************************************************************)
\* let a: ArrowDataType = t.into();
ColumnTypeInto(t) ==
    /\ conv' = [src |-> t, native |-> ArrowFrom(t), back |-> NotCalled]
    /\ UNCHANGED <<wire, textVars, catalogVars, configVars>>

\* A native type handed over by the query engine.
ArrowFromEngine(a) ==
    /\ conv' = [src |-> NotCalled, native |-> a, back |-> NotCalled]
    /\ UNCHANGED <<wire, textVars, catalogVars, configVars>>

\* ColumnType::try_from(native)
CallTryFrom ==
    /\ conv.native # NotCalled
    /\ conv.back = NotCalled
    /\ conv' = [conv EXCEPT !.back = ColumnTypeTryFrom(conv.native)]
    /\ UNCHANGED <<wire, textVars, catalogVars, configVars>>

\* t.field_type()
CallFieldType(t) ==
    /\ wire' = [src |-> t, code |-> Returned(field_type(t)), back |-> NotCalled]
    /\ UNCHANGED <<conv, textVars, catalogVars, configVars>>

\* A numeric tag read back from the store.
WireFromStore(n) ==
    /\ wire' = [src |-> NotCalled, code |-> Returned(n), back |-> NotCalled]
    /\ UNCHANGED <<conv, textVars, catalogVars, configVars>>

\* ColumnType::from_i32(code)
CallFromI32 ==
    /\ wire.code # NotCalled
    /\ wire.back = NotCalled
    /\ wire' = [wire EXCEPT !.back = from_i32(wire.code.val)]
    /\ UNCHANGED <<conv, textVars, catalogVars, configVars>>

InitTypes == IdleText /\ IdleTypes /\ IdleCatalog /\ IdleConfig

NextTypes ==
    \/ \E t \in ColumnType : ColumnTypeInto(t)
    \/ \E a \in ArrowDataType : ArrowFromEngine(a)
    \/ CallTryFrom
    \/ \E t \in ColumnType : CallFieldType(t)
    \/ \E n \in WireTags : WireFromStore(n)
    \/ CallFromI32

SpecTypes == InitTypes /\ [][NextTypes]_vars

(***************************************************************************)
(* Building a TableSchema and reading it.                                  *)
(***************************************************************************)
\* fields.insert(f.name.clone(), f) with f = TableFiled::new(id, name, t, 0)
InsertNew(id, name, t) ==
    /\ schema = NotCalled
    /\ fields' = BTreeInsert(fields, name, TableFiled_new(id, name, t, 0))
    /\ UNCHANGED <<schema, arrowSchema, fieldSlots, fieldNum, textVars, typeVars, configVars>>

\* fields.insert(name, TableFiled::new_with_default(name, t))
InsertWithDefault(name, t) ==
    /\ schema = NotCalled
    /\ fields' = BTreeInsert(fields, name, new_with_default(name, t))
    /\ UNCHANGED <<schema, arrowSchema, fieldSlots, fieldNum, textVars, typeVars, configVars>>

\* fields.insert(TIME_FIELD_NAME, TableFiled::time_field(0))
InsertTimeField ==
    /\ schema = NotCalled
    /\ fields' = BTreeInsert(fields, TIME_FIELD_NAME, time_field(0))
    /\ UNCHANGED <<schema, arrowSchema, fieldSlots, fieldNum, textVars, typeVars, configVars>>

\* TableSchema::new(db, name, fields): the map is moved into the schema.
CallTableSchemaNew(db, name) ==
    /\ schema = NotCalled
    /\ schema' = TableSchema_new(db, name, fields)
    /\ fields' = BTreeMapNew
    /\ UNCHANGED <<arrowSchema, fieldSlots, fieldNum, textVars, typeVars, configVars>>

\* TableSchema::default()
CallTableSchemaDefault ==
    /\ schema = NotCalled
    /\ fields = BTreeMapNew
    /\ schema' = TableSchema_default
    /\ UNCHANGED <<fields, arrowSchema, fieldSlots, fieldNum, textVars, typeVars, configVars>>

CallToArrowSchema ==
    /\ schema # NotCalled
    /\ arrowSchema = NotCalled
    /\ arrowSchema' = Returned(to_arrow_schema(schema))
    /\ UNCHANGED <<fields, schema, fieldSlots, fieldNum, textVars, typeVars, configVars>>

CallFieldsId ==
    /\ schema # NotCalled
    /\ fieldSlots = NotCalled
    /\ fieldSlots' = Returned(fields_id(schema))
    /\ UNCHANGED <<fields, schema, arrowSchema, fieldNum, textVars, typeVars, configVars>>

CallFieldFieldsNum ==
    /\ schema # NotCalled
    /\ fieldNum = NotCalled
    /\ fieldNum' = Returned(field_fields_num(schema))
    /\ UNCHANGED <<fields, schema, arrowSchema, fieldSlots, textVars, typeVars, configVars>>

InitCatalog == IdleText /\ IdleTypes /\ IdleCatalog /\ IdleConfig

NextCatalog ==
    \/ \E id \in FieldIds, name \in FieldNames, t \in ColumnType : InsertNew(id, name, t)
    \/ \E name \in FieldNames, t \in ColumnType : InsertWithDefault(name, t)
    \/ InsertTimeField
    \/ CallTableSchemaNew("public", "air")
    \/ CallTableSchemaDefault
    \/ CallToArrowSchema
    \/ CallFieldsId
    \/ CallFieldFieldsNum

Spec == InitCatalog /\ [][NextCatalog]_vars

(***************************************************************************)
(* Start-up: the configuration is read, the environment overrides it, and  *)
(* databases are created with their default options.                       *)
(***************************************************************************)
\* config.wal.override_by_env()
CallOverrideByEnv ==
    /\ configPc = "loaded"
    /\ wal' = override_by_env(wal, env)
    /\ configPc' = "overridden"
    /\ UNCHANGED <<dbCall, env, textVars, typeVars, catalogVars>>

\* DatabaseSchema::new(name)
CallDatabaseSchemaNew(name) ==
    /\ dbCall' = [tag |-> "Returned", name |-> name, val |-> DatabaseSchema_new(name)]
    /\ UNCHANGED <<wal, env, configPc, textVars, typeVars, catalogVars>>

InitConfig ==
    /\ IdleText /\ IdleTypes /\ IdleCatalog
    /\ dbCall = NotCalled
    /\ wal \in [enabled : BOOLEAN, path : {"data/wal"}, sync : BOOLEAN]
    /\ env \in {e \in [EnvVars -> {None} \cup {Some(v) : v \in BoolTexts \cup WalPaths}] :
            /\ e["CNOSDB_WAL_PATH"] \in {None} \cup {Some(v) : v \in WalPaths}
            /\ e["CNOSDB_WAL_ENABLED"] \in {None} \cup {Some(v) : v \in BoolTexts}
            /\ e["CNOSDB_WAL_SYNC"] \in {None} \cup {Some(v) : v \in BoolTexts}}
    /\ configPc = "loaded"

NextConfig ==
    \/ CallOverrideByEnv
    \/ \E name \in DbNames : CallDatabaseSchemaNew(name)

SpecConfig == InitConfig /\ [][NextConfig]_vars

(***************************************************************************)
(* Properties.                                                             *)
(***************************************************************************)
IsFieldRole(t) == t # Tag /\ t # Time

\* The identifiers of the Field-role columns of a schema.
FieldRoleIds(s) ==
    {s.fields[i].val.id : i \in {j \in 1..Len(s.fields) : IsFieldRole(s.fields[j].val.column_type)}}

\* C1: fields_id() is a bijection between the identifiers of the Field-role
\* columns and 0 .. field_fields_num() - 1, and a smaller identifier gets a
\* smaller slot.
C1_FieldsIdBijection ==
    (fieldSlots # NotCalled /\ fieldNum # NotCalled) =>
        LET m == fieldSlots.val
            n == fieldNum.val
        IN  /\ DOMAIN m = FieldRoleIds(schema)
            /\ {m[id] : id \in DOMAIN m} = 0..(n - 1)
            /\ \A a, b \in DOMAIN m : a < b => m[a] < m[b]

\* C2: TableSchema::new yields no schema when two Field-role entries of the
\* mapping share an identifier: in every schema it produced, the Field-role
\* columns have pairwise different identifiers.
C2_NewRejectsDuplicateFieldIds ==
    schema # NotCalled =>
        \A i, j \in 1..Len(schema.fields) :
            (/\ i # j
             /\ IsFieldRole(schema.fields[i].val.column_type)
             /\ IsFieldRole(schema.fields[j].val.column_type))
            => schema.fields[i].val.id # schema.fields[j].val.id

\* C3: Duration::new returns a Duration or nothing on every text; it never
\* panics.
C3_DurationNewNeverPanics ==
    durResult # NotCalled => durResult.tag \in {"Some", "None"}

\* What C4 says Duration::new yields on text t (length counted in characters).
C4_Expected(t) ==
    IF Len(t) < 4 THEN None
    ELSE LET magnitude == SubSeq(t, 2, Len(t) - 2)
             letter == t[Len(t) - 1]
             n == ParseU64(magnitude)
         IN  IF n.tag = "Err" THEN None
             ELSE CASE letter \in {"d", "D"} -> Some(Duration(n.val, "Day"))
                    [] letter \in {"h", "H"} -> Some(Duration(n.val, "Hour"))
                    [] letter \in {"m", "M"} -> Some(Duration(n.val, "Minutes"))
                    [] OTHER -> None

\* C4: for a text of length >= 4, Duration::new parses the text between the
\* first character and the last two as an unsigned integer n, maps the
\* last-but-one character d/h/m (either case) to Day/Hour/Minutes and yields
\* {n, unit}; it yields nothing for a shorter text, a magnitude that is not
\* a number, or another unit letter.
C4_DurationNewParses ==
    durResult # NotCalled => durResult = C4_Expected(text)

RoundTripTypes ==
    {Field("Float"), Field("Integer"), Field("Unsigned"), Field("String"), Field("Boolean")}

InvertibleArrowTypes ==
    {Arrow("Float64"), Arrow("Int64"), Arrow("UInt64"), Arrow("Utf8"), Arrow("Boolean")}

\* C5: Field(Float), Field(Integer), Field(Unsigned), Field(String) and
\* Field(Boolean) converted to the native type and back give Ok of the
\* original; every native type outside Float64, Int64, UInt64, Utf8, Boolean
\* (Null, the image of Field(Unknown), and the nanosecond Timestamp, the
\* image of Time, among them) converts back to an error.
C5_ColumnTypeRoundTrip ==
    conv.back # NotCalled =>
        /\ conv.src \in RoundTripTypes => conv.back = Ok(conv.src)
        /\ conv.native \notin InvertibleArrowTypes => conv.back.tag = "Err"
        /\ conv.src \in {Field("Unknown"), Time} =>
              /\ conv.native \in {Arrow("Null"), Timestamp("Nanosecond")}
              /\ conv.back.tag = "Err"

C5_Witness ==
    /\ conv.src = Field("Integer")
    /\ conv.native = Arrow("Int64")
    /\ conv.back = Ok(Field("Integer"))

\* A decimal numeral without sign or leading zero.
IsDecimalText(s) ==
    /\ Len(s) >= 1
    /\ \A i \in 1..Len(s) : s[i] \in Digits
    /\ (Len(s) > 1 => s[1] # "0")

\* C6: to_arrow_schema() yields one column per entry of the field map, in
\* ascending field-name order, each with the native type of the entry's role,
\* the entry's identifier as decimal text under _field_id and "true" or
\* "false" under _tag according to whether the role is Tag.
C6_ArrowSchemaProjection ==
    arrowSchema # NotCalled =>
        LET cols == arrowSchema.val
            fs == schema.fields
        IN  /\ Len(cols) = Len(fs)
            /\ {cols[i].name : i \in 1..Len(cols)} = {fs[i].key : i \in 1..Len(fs)}
            /\ \A i, j \in 1..Len(cols) : i < j => StrLess(cols[i].name, cols[j].name)
            /\ \A i \in 1..Len(cols) :
                  \E j \in 1..Len(fs) :
                      /\ fs[j].key = cols[i].name
                      /\ cols[i].data_type = ArrowFrom(fs[j].val.column_type)
                      /\ DOMAIN cols[i].metadata = {FIELD_ID, TAG}
                      /\ IsDecimalText(cols[i].metadata[FIELD_ID])
                      /\ DecimalValue(cols[i].metadata[FIELD_ID]) = fs[j].val.id
                      /\ cols[i].metadata[TAG] =
                            IF fs[j].val.column_type = Tag
                            THEN <<"t", "r", "u", "e">>
                            ELSE <<"f", "a", "l", "s", "e">>

\* The schema {time: Time, region: Tag, temp: Field(Float) id 3, inserted in
\* that order} projected to the columns region, temp, time.
C6_Witness ==
    /\ schema # NotCalled
    /\ arrowSchema # NotCalled
    /\ Len(schema.fields) = 3
    /\ \E i \in 1..3 : /\ schema.fields[i].key = <<"t", "e", "m", "p">>
                       /\ schema.fields[i].val.column_type = Field("Float")
                       /\ schema.fields[i].val.id = 3
    /\ \E i \in 1..3 : /\ schema.fields[i].key = <<"r", "e", "g", "i", "o", "n">>
                       /\ schema.fields[i].val.column_type = Tag
                       /\ schema.fields[i].val.id = 11
    /\ \E i \in 1..3 : /\ schema.fields[i].key = TIME_FIELD_NAME
                       /\ schema.fields[i].val.column_type = Time
    /\ [i \in 1..3 |-> arrowSchema.val[i].name]
         = << <<"r", "e", "g", "i", "o", "n">>, <<"t", "e", "m", "p">>, TIME_FIELD_NAME >>
    /\ arrowSchema.val[1].metadata[TAG] = <<"t", "r", "u", "e">>
    /\ arrowSchema.val[1].metadata[FIELD_ID] = <<"1", "1">>
    /\ arrowSchema.val[2].metadata[FIELD_ID] = <<"3">>
    /\ arrowSchema.val[2].metadata[TAG] = <<"f", "a", "l", "s", "e">>
    /\ arrowSchema.val[2].data_type = Arrow("Float64")

\* C7: DatabaseSchema::new(name) has the given name and the default options
\* ttl = 365 Day, shard_num = 1, vnode_duration = 365 Day, replica = 1,
\* precision = Nanoseconds; so shard_num >= 1 and replica >= 1.
C7_DatabaseSchemaDefaults ==
    dbCall # NotCalled =>
        /\ dbCall.val.name = dbCall.name
        /\ dbCall.val.config.ttl = [time_num |-> 365, unit |-> "Day"]
        /\ dbCall.val.config.shard_num = 1
        /\ dbCall.val.config.vnode_duration = [time_num |-> 365, unit |-> "Day"]
        /\ dbCall.val.config.replica = 1
        /\ dbCall.val.config.precision = "NS"
        /\ dbCall.val.config.shard_num >= 1
        /\ dbCall.val.config.replica >= 1

C7_Witness ==
    /\ dbCall # NotCalled
    /\ dbCall.name = "metrics"
    /\ dbCall.val.name = "metrics"
    /\ dbCall.val.config.shard_num = 1

\* Simple case folding of the characters of the model.
CaseFold(c) ==
    CASE c = "M" -> "m"
      [] c = "N" -> "n"
      [] c = "S" -> "s"
      [] c = "U" -> "u"
      [] c = "U+017F" -> "s"
      [] OTHER -> c

EqualsIgnoringCase(s, token) ==
    /\ Len(s) = Len(token)
    /\ \A i \in 1..Len(s) : CaseFold(s[i]) = CaseFold(token[i])

\* C8: Precision::new yields Milliseconds, Microseconds or Nanoseconds
\* exactly when the text equals 'MS', 'US' or 'NS' (quotes included) up to
\* case, and nothing for every other text.
C8_PrecisionNewMatchesTokens ==
    precResult # NotCalled =>
        /\ precResult = Some("MS") <=> EqualsIgnoringCase(text, <<"'", "M", "S", "'">>)
        /\ precResult = Some("US") <=> EqualsIgnoringCase(text, <<"'", "U", "S", "'">>)
        /\ precResult = Some("NS") <=> EqualsIgnoringCase(text, <<"'", "N", "S", "'">>)
        /\ precResult \in {None, Some("MS"), Some("US"), Some("NS")}

C8_Witness ==
    /\ text = <<"'", "n", "s", "'">>
    /\ precResult = Some("NS")

ConcreteColumnTypes == ColumnType \ {Field("Unknown")}

\* C9: for every ColumnType c other than Field(Unknown),
\* from_i32(c.field_type()) = c; Time encodes to 5.
C9_WireEncodingLossless ==
    /\ (wire.src \in ConcreteColumnTypes /\ wire.back # NotCalled) => wire.back = wire.src
    /\ wire.src = Time => wire.code = Returned(5)

\* What C10 says sync is after the override.
C10_ExpectedSync(value, previous) ==
    CASE value = Some("true") -> TRUE
      [] value = Some("false") -> FALSE
      [] OTHER -> previous

\* C10: override_by_env sets sync to the boolean CNOSDB_WAL_SYNC spells,
\* and leaves sync as it was when the variable holds other text or is unset.
C10_SyncOverride ==
    [][(configPc = "loaded" /\ configPc' = "overridden")
        => wal'.sync = C10_ExpectedSync(env["CNOSDB_WAL_SYNC"], wal.sync)]_vars

====
